---- MODULE Spec2Model ----
(***************************************************************************)
(* The Level-2 order book builder of ITCH_parser: the replay loop of       *)
(* build_level2_simple (src/build_level2_simple.py), which reads the rows  *)
(* of the decoded message CSV in feed order and keeps the dict `orders`    *)
(* (order id -> live order) and the per-ticker snapshot lists, and then    *)
(* writes one CSV row per snapshot; and the two                            *)
(* frame decoders that come before it: the read loop of parse_itch         *)
(* (src/simple_parser.py) and decode_message with its per-type decoders    *)
(* (src/message_type_decoders.py).                                         *)
(*                                                                         *)
(* A row is one csv.DictReader row: every column is a string cell, and an  *)
(* empty cell is "".  Prices are kept in cents (the float 10.5 is 1050),   *)
(* and float()/int() are modelled by the tables FloatTable / IntTable: a   *)
(* cell outside the table makes the conversion raise ValueError.           *)
(*                                                                         *)
(* A frame is a sequence of bytes (0..255); decoded text is the sequence   *)
(* of its code points, so that stripping and replacement are computed.     *)
(***************************************************************************)
EXTENDS Integers, Sequences, FiniteSets, TLC

VARIABLES
  orders,               \* dict orders: order_id -> {symbol, side, price, qty, timestamp}
  snapshots_by_ticker,  \* defaultdict(list): ticker -> list of {timestamp, bids, asks}
  msg_count,            \* rows read so far
  row,                  \* the row the loop body last ran on
  before,               \* history: `orders` as it was when `row` was read
  track,                \* history: per order id, what is still to execute since its creation
  crashed,              \* an exception left build_level2_simple
  output,               \* the rows written to output_csv, header first; empty until the loop is over
  triggered,            \* history: per Timestamp row and symbol live when it was read, <<row number, symbol, seconds>>
  stream,               \* parse_itch: the bytes of the file not yet read
  records,              \* parse_itch: the list `records`
  frames,               \* history: per record, the length and payload it was made from
  parser,               \* parse_itch: "reading", "done" (the loop broke), or the exception that left it
  msg,                  \* the bytes given to decode_message
  decoded               \* what decode_message returned; the empty dict before the call

\* the variables of build_level2_simple, and those of the two decoders
bvars == <<orders, snapshots_by_ticker, msg_count, row, before, track, crashed,
           output, triggered>>
dvars == <<stream, records, frames, parser, msg, decoded>>

vars == <<bvars, dvars>>

\* ---------------------------------------------------------------- bounds

\* rows of the input CSV that one run replays
MaxEvents == 3

\* distinct prices on the grid a prepared book draws its bids from
BookDepth == 8

\* Timestamp rows replayed on a prepared book
MaxTriggers == 2

\* frames of a file given to parse_itch
MaxFrames == 2

\* the [:5] of the snapshot's price lists
Levels == 5

\* the range(5) of the writer: price/qty pairs per side of an output row
Pairs == 5

\* ---------------------------------------------------------------- cells

\* Python truthiness of a str cell
Truthy(s) == s # ""

\* str.strip() on the cells the model feeds
Strip(s) == IF s = "  " THEN "" ELSE s

\* float(s), in cents, for the cells that parse
FloatTable == ("0" :> 0) @@ ("0.0" :> 0) @@ ("10.0" :> 1000) @@ ("10.5" :> 1050)

\* int(s) for the cells that parse (int("10.5") and int("abc") raise)
IntTable == ("0" :> 0) @@ ("3" :> 3) @@ ("7" :> 7) @@ ("9" :> 9)
            @@ ("40" :> 40) @@ ("60" :> 60) @@ ("100" :> 100) @@ ("200" :> 200)

CanFloat(s) == s \in DOMAIN FloatTable

CanInt(s) == s \in DOMAIN IntTable

\* ---------------------------------------------------------------- the dict

EmptyDict == [k \in {} |-> 0]

\* del d[k]
DictDel(d, k) == [j \in DOMAIN d \ {k} |-> d[j]]

\* d[k] = v
DictSet(d, k, v) == [j \in DOMAIN d \cup {k} |-> IF j = k THEN v ELSE d[j]]

\* ---------------------------------------------------------------- rows

BlankRow(t) == [message_type |-> t, order_id |-> "", old_order_id |-> "",
                symbol |-> "", side |-> "", price |-> "", quantity |-> "",
                timestamp |-> "", seconds |-> ""]

Ids == {"1", "2"}

AddRow(id, sym, sd, p, q, ts) ==
  [BlankRow("A") EXCEPT !.order_id = id, !.symbol = sym, !.side = sd,
                        !.price = p, !.quantity = q, !.timestamp = ts]

\* the Add row every other Add row differs from in one cell or in all cells
BaseAdd(id) == AddRow(id, "ABC", "B", "10.0", "100", "3")

\* well-formed Add rows
GoodAddRows ==
  UNION { { BaseAdd(id),
            [BaseAdd(id) EXCEPT !.symbol = "XYZ"],
            [BaseAdd(id) EXCEPT !.side = "S"],
            [BaseAdd(id) EXCEPT !.price = "10.5"],
            [BaseAdd(id) EXCEPT !.timestamp = "7"],
            AddRow(id, "XYZ", "S", "10.5", "100", "7") } : id \in Ids }

\* Add rows with no cell filled (a short frame), or with one cell empty, blank,
\* zero or unparseable
EdgeAddRows ==
  { BlankRow("A"), [BaseAdd("1") EXCEPT !.order_id = ""] }
  \cup { [BaseAdd("1") EXCEPT !.symbol = sym] : sym \in {"", "  "} }
  \cup { [BaseAdd("1") EXCEPT !.price = p] : p \in {"", "abc"} }
  \cup { [BaseAdd("1") EXCEPT !.quantity = q] : q \in {"", "0", "abc"} }
  \cup { [BaseAdd("1") EXCEPT !.timestamp = ts] : ts \in {"", "abc"} }

AddRows == GoodAddRows \cup EdgeAddRows

ExecuteRows ==
  { [BlankRow("e") EXCEPT !.order_id = id, !.quantity = q] :
      id \in Ids, q \in {"40", "60", "", "abc"} }
  \cup { [BlankRow("e") EXCEPT !.quantity = "40"] }

DeleteRows == { [BlankRow("D") EXCEPT !.order_id = id] : id \in Ids \cup {""} }

\* the price and quantity cells of a Replace row: each absent or present, and
\* a zero or an unparseable cell beside an absent or a present one
ReplaceCells ==
  ({"", "10.5"} \X {"", "200"})
  \cup {<<"0", "">>, <<"0", "200">>, <<"0.0", "200">>, <<"", "0">>, <<"10.5", "0">>,
        <<"abc", "">>, <<"abc", "200">>, <<"", "abc">>, <<"10.5", "abc">>}

ReplaceRows ==
  { [BlankRow("U") EXCEPT !.old_order_id = old, !.order_id = new,
                          !.price = c[1], !.quantity = c[2]] :
      old \in Ids, new \in Ids, c \in ReplaceCells }
  \cup { BlankRow("U") }

TimestampRows == { [BlankRow("T") EXCEPT !.seconds = s] : s \in {"9", ""} }

\* rows of a type the loop has no branch for
OtherRows == { BlankRow("S") }

\* ---------------------------------------------------------------- handlers
\* A handler maps the dict and the row to the dict it leaves behind and the
\* exception raised inside its try block ("none" when nothing is raised).

\* except (ValueError, TypeError) of the Add and Execute branches
ExceptAE == {"ValueError", "TypeError"}

\* ExceptU as it would be if the Replace branch caught KeyError alone
ExceptU_KeyErrorOnly == {"KeyError"}

\* except (ValueError, TypeError, KeyError) of the Replace branch
ExceptU == {"ValueError", "TypeError", "KeyError"}

\* TypeA as it would be if an Add never overwrote a live order (orders.setdefault)
TypeA_KeepExisting(ords, r) ==
  LET order_id == r.order_id
      symbol == Strip(r.symbol)
  IN IF Truthy(order_id) /\ Truthy(symbol)
     THEN IF \/ (Truthy(r.price) /\ ~CanFloat(r.price))
             \/ (Truthy(r.quantity) /\ ~CanInt(r.quantity))
             \/ (Truthy(r.timestamp) /\ ~CanInt(r.timestamp))
          THEN [orders |-> ords, exc |-> "ValueError"]
          ELSE IF order_id \in DOMAIN ords
          THEN [orders |-> ords, exc |-> "none"]
          ELSE [orders |->
                  DictSet(ords, order_id,
                    [symbol |-> symbol,
                     side |-> Strip(r.side),
                     price |-> IF Truthy(r.price) THEN FloatTable[r.price] ELSE 0,
                     qty |-> IF Truthy(r.quantity) THEN IntTable[r.quantity] ELSE 0,
                     timestamp |-> IF Truthy(r.timestamp) THEN IntTable[r.timestamp] ELSE 0]),
                exc |-> "none"]
     ELSE [orders |-> ords, exc |-> "none"]

\* TypeA as it would be if the entry were assigned field by field, the old
\* entry being dropped before the cells are parsed
TypeA_DropsBeforeParsing(ords, r) ==
  LET order_id == r.order_id
      symbol == Strip(r.symbol)
  IN IF Truthy(order_id) /\ Truthy(symbol)
     THEN IF \/ (Truthy(r.price) /\ ~CanFloat(r.price))
             \/ (Truthy(r.quantity) /\ ~CanInt(r.quantity))
             \/ (Truthy(r.timestamp) /\ ~CanInt(r.timestamp))
          THEN [orders |-> DictDel(ords, order_id), exc |-> "ValueError"]
          ELSE [orders |->
                  DictSet(ords, order_id,
                    [symbol |-> symbol,
                     side |-> Strip(r.side),
                     price |-> IF Truthy(r.price) THEN FloatTable[r.price] ELSE 0,
                     qty |-> IF Truthy(r.quantity) THEN IntTable[r.quantity] ELSE 0,
                     timestamp |-> IF Truthy(r.timestamp) THEN IntTable[r.timestamp] ELSE 0]),
                exc |-> "none"]
     ELSE [orders |-> ords, exc |-> "none"]

\* Type A: Add Order
TypeA(ords, r) ==
  LET order_id == r.order_id
      symbol == Strip(r.symbol)
      side == Strip(r.side)
      price_str == r.price
      qty_str == r.quantity
      timestamp == r.timestamp
  IN IF Truthy(order_id) /\ Truthy(symbol)
     THEN IF \/ (Truthy(price_str) /\ ~CanFloat(price_str))
             \/ (Truthy(qty_str) /\ ~CanInt(qty_str))
             \/ (Truthy(timestamp) /\ ~CanInt(timestamp))
          THEN [orders |-> ords, exc |-> "ValueError"]
          ELSE [orders |->
                  DictSet(ords, order_id,
                    [symbol |-> symbol,
                     side |-> side,
                     price |-> IF Truthy(price_str) THEN FloatTable[price_str] ELSE 0,
                     qty |-> IF Truthy(qty_str) THEN IntTable[qty_str] ELSE 0,
                     timestamp |-> IF Truthy(timestamp) THEN IntTable[timestamp] ELSE 0]),
                exc |-> "none"]
     ELSE [orders |-> ords, exc |-> "none"]

\* TypeE as it would be with `< 0` for `<= 0`
TypeE_StrictZero(ords, r) ==
  LET order_id == r.order_id
      exec_qty_str == r.quantity
  IN IF order_id \in DOMAIN ords
     THEN IF Truthy(exec_qty_str) /\ ~CanInt(exec_qty_str)
          THEN [orders |-> ords, exc |-> "ValueError"]
          ELSE LET exec_qty == IF Truthy(exec_qty_str) THEN IntTable[exec_qty_str] ELSE 0
                   qty == ords[order_id].qty - exec_qty
               IN IF qty < 0
                  THEN [orders |-> DictDel(ords, order_id), exc |-> "none"]
                  ELSE [orders |-> [ords EXCEPT ![order_id].qty = qty], exc |-> "none"]
     ELSE [orders |-> ords, exc |-> "none"]

\* TypeE as it would be if the decrement were computed but not stored
TypeE_NoDecrement(ords, r) ==
  LET order_id == r.order_id
      exec_qty_str == r.quantity
  IN IF order_id \in DOMAIN ords
     THEN IF Truthy(exec_qty_str) /\ ~CanInt(exec_qty_str)
          THEN [orders |-> ords, exc |-> "ValueError"]
          ELSE LET exec_qty == IF Truthy(exec_qty_str) THEN IntTable[exec_qty_str] ELSE 0
                   qty == ords[order_id].qty - exec_qty
               IN IF qty <= 0
                  THEN [orders |-> DictDel(ords, order_id), exc |-> "none"]
                  ELSE [orders |-> ords, exc |-> "none"]
     ELSE [orders |-> ords, exc |-> "none"]

\* Type e: Execute Order
TypeE(ords, r) ==
  LET order_id == r.order_id
      exec_qty_str == r.quantity
  IN IF order_id \in DOMAIN ords
     THEN IF Truthy(exec_qty_str) /\ ~CanInt(exec_qty_str)
          THEN [orders |-> ords, exc |-> "ValueError"]
          ELSE LET exec_qty == IF Truthy(exec_qty_str) THEN IntTable[exec_qty_str] ELSE 0
                   qty == ords[order_id].qty - exec_qty
               IN IF qty <= 0
                  THEN [orders |-> DictDel(ords, order_id), exc |-> "none"]
                  ELSE [orders |-> [ords EXCEPT ![order_id].qty = qty], exc |-> "none"]
     ELSE [orders |-> ords, exc |-> "none"]

\* TypeD as it would be if a Delete of a live order emptied the dict
TypeD_Clear(ords, r) ==
  LET order_id == r.order_id
  IN IF Truthy(order_id) /\ order_id \in DOMAIN ords
     THEN [orders |-> EmptyDict, exc |-> "none"]
     ELSE [orders |-> ords, exc |-> "none"]

\* Type D: Delete Order
TypeD(ords, r) ==
  LET order_id == r.order_id
  IN IF Truthy(order_id) /\ order_id \in DOMAIN ords
     THEN [orders |-> DictDel(ords, order_id), exc |-> "none"]
     ELSE [orders |-> ords, exc |-> "none"]

\* new_price_str and new_price_str != '0'
UsePrice(r) == Truthy(r.price) /\ r.price # "0"

\* new_qty_str (truthiness)
UseQty(r) == Truthy(r.quantity)

\* float(new_price_str) or int(new_qty_str) raises ValueError
ReplaceRaises(r) ==
  \/ (UsePrice(r) /\ ~CanFloat(r.price))
  \/ (UseQty(r) /\ ~CanInt(r.quantity))

\* ReplacedOrder as it would be if the side were read from the row, as Add reads it
ReplacedOrder_SideFromRow(old_order, r) ==
  [symbol |-> old_order.symbol,
   side |-> IF Truthy(r.side) THEN Strip(r.side) ELSE "B",
   price |-> IF UsePrice(r) THEN FloatTable[r.price] ELSE old_order.price,
   qty |-> IF UseQty(r) THEN IntTable[r.quantity] ELSE old_order.qty,
   timestamp |-> old_order.timestamp]

\* ReplacedOrder as it would be if a quantity cell '0' were skipped as a price cell '0' is
ReplacedOrder_ZeroQtyAbsent(old_order, r) ==
  [symbol |-> old_order.symbol,
   side |-> old_order.side,
   price |-> IF UsePrice(r) THEN FloatTable[r.price] ELSE old_order.price,
   qty |-> IF UseQty(r) /\ r.quantity # "0" THEN IntTable[r.quantity] ELSE old_order.qty,
   timestamp |-> old_order.timestamp]

\* the dict literal assigned to orders[new_id]
ReplacedOrder(old_order, r) ==
  [symbol |-> old_order.symbol,
   side |-> old_order.side,
   price |-> IF UsePrice(r) THEN FloatTable[r.price] ELSE old_order.price,
   qty |-> IF UseQty(r) THEN IntTable[r.quantity] ELSE old_order.qty,
   timestamp |-> old_order.timestamp]

\* TypeU as it would be if the entry of new_id were dropped before the test on old_id
TypeU_DropsTarget(ords, r) ==
  LET old_id == r.old_order_id
      new_id == r.order_id
  IN IF old_id \in DOMAIN ords
     THEN LET old_order == ords[old_id]
              deleted == DictDel(ords, old_id)
          IN IF ReplaceRaises(r)
             THEN [orders |-> deleted, exc |-> "ValueError"]
             ELSE [orders |-> DictSet(deleted, new_id, ReplacedOrder(old_order, r)),
                   exc |-> "none"]
     ELSE [orders |-> DictDel(ords, new_id), exc |-> "none"]

\* Type U: Replace Order.  del orders[old_id] runs before the new order's dict
\* is built, so a float()/int() that raises leaves the old order deleted.
TypeU(ords, r) ==
  LET old_id == r.old_order_id
      new_id == r.order_id
  IN IF old_id \in DOMAIN ords
     THEN LET old_order == ords[old_id]
              deleted == DictDel(ords, old_id)
          IN IF ReplaceRaises(r)
             THEN [orders |-> deleted, exc |-> "ValueError"]
             ELSE [orders |-> DictSet(deleted, new_id, ReplacedOrder(old_order, r)),
                   exc |-> "none"]
     ELSE [orders |-> ords, exc |-> "none"]

\* ---------------------------------------------------------------- snapshot

Min(a, b) == IF a <= b THEN a ELSE b

Range(s) == { s[i] : i \in DOMAIN s }

RECURSIVE SumQty_Overwrite(_, _)
\* SumQty as it would be if a level were assigned the order's qty, not added to
SumQty_Overwrite(ords, S) ==
  IF S = {} THEN 0
  ELSE LET k == CHOOSE k \in S : TRUE
       IN ords[k].qty

RECURSIVE SumQty(_, _)
\* the running .get(price, 0) + qty over a set of orders
SumQty(ords, S) ==
  IF S = {} THEN 0
  ELSE LET k == CHOOSE k \in S : TRUE
       IN ords[k].qty + SumQty(ords, S \ {k})

\* SideLevels as it would be if the asks took the orders of side 'S' alone
SideLevels_SellsOnly(ords, ticker, bid) ==
  LET ids == { k \in DOMAIN ords :
                 ords[k].symbol = ticker
                 /\ ords[k].side = (IF bid THEN "B" ELSE "S") }
  IN [p \in { ords[k].price : k \in ids } |->
        SumQty(ords, { k \in ids : ords[k].price = p })]

\* tickers[ticker]['bids'] (bid = TRUE) or tickers[ticker]['asks']: price -> summed qty
SideLevels(ords, ticker, bid) ==
  LET ids == { k \in DOMAIN ords :
                 ords[k].symbol = ticker /\ ((ords[k].side = "B") <=> bid) }
  IN [p \in { ords[k].price : k \in ids } |->
        SumQty(ords, { k \in ids : ords[k].price = p })]

RECURSIVE Sorted_Ascending(_, _)
\* Sorted as it would be without reverse=True
Sorted_Ascending(S, reverse) ==
  IF S = {} THEN <<>>
  ELSE LET m == CHOOSE m \in S : \A x \in S : m <= x
       IN <<m>> \o Sorted_Ascending(S \ {m}, reverse)

RECURSIVE Sorted(_, _)
\* sorted(S) (reverse = FALSE) or sorted(S, reverse=True), as a sequence
Sorted(S, reverse) ==
  IF S = {} THEN <<>>
  ELSE LET m == CHOOSE m \in S : \A x \in S : IF reverse THEN m >= x ELSE m <= x
       IN <<m>> \o Sorted(S \ {m}, reverse)

\* Take as it would be with [-n:] for [:n]
Take_Last(s, n) == SubSeq(s, Len(s) - Min(n, Len(s)) + 1, Len(s))

\* s[:n]
Take(s, n) == SubSeq(s, 1, Min(n, Len(s)))

\* {prices[i]: levels[prices[i]] for i in range(len(prices))}: a dict keeps its
\* insertion order, so it is the sequence of its <<price, qty>> items
OrderedDict(prices, levels) == [i \in 1..Len(prices) |-> <<prices[i], levels[prices[i]]>>]

\* the snapshot appended for one ticker
Snapshot(ords, ticker, timestamp) ==
  LET bids == SideLevels(ords, ticker, TRUE)
      asks == SideLevels(ords, ticker, FALSE)
      bid_prices == Take(Sorted(DOMAIN bids, TRUE), Levels)
      ask_prices == Take(Sorted(DOMAIN asks, FALSE), Levels)
  IN [timestamp |-> timestamp,
      bids |-> OrderedDict(bid_prices, bids),
      asks |-> OrderedDict(ask_prices, asks)]

\* snap['bids'].keys()
Keys(items) == { items[i][1] : i \in DOMAIN items }

\* the prices written into bid_1..bid_5 (reverse = TRUE) or ask_1..ask_5 of a
\* snapshot's CSV row: sorted(keys), of which range(5) takes the first five
WrittenPrices(items, reverse) == Take(Sorted(Keys(items), reverse), Levels)

\* TypeT as it would be if `tickers` were created once, before the loop: the
\* levels of a trigger are added to those of the ticker's previous snapshot
TypeT_Accumulates(ords, snaps, r) ==
  LET timestamp == r.seconds
      tickers == { ords[k].symbol : k \in DOMAIN ords }
      Carry(items, levels) ==
        [p \in Keys(items) \cup DOMAIN levels |->
           (IF p \in DOMAIN levels THEN levels[p] ELSE 0)
           + (IF \E i \in DOMAIN items : items[i][1] = p
              THEN (CHOOSE x \in Range(items) : x[1] = p)[2] ELSE 0)]
      Snap(t) ==
        LET old == IF t \in DOMAIN snaps THEN snaps[t][Len(snaps[t])]
                   ELSE [timestamp |-> "", bids |-> <<>>, asks |-> <<>>]
            bids == Carry(old.bids, SideLevels(ords, t, TRUE))
            asks == Carry(old.asks, SideLevels(ords, t, FALSE))
        IN [timestamp |-> timestamp,
            bids |-> OrderedDict(Take(Sorted(DOMAIN bids, TRUE), Levels), bids),
            asks |-> OrderedDict(Take(Sorted(DOMAIN asks, FALSE), Levels), asks)]
  IN [t \in DOMAIN snaps \cup tickers |->
        IF t \in tickers
        THEN Append(IF t \in DOMAIN snaps THEN snaps[t] ELSE <<>>, Snap(t))
        ELSE snaps[t]]

\* TypeT as it would be if a ticker with no bid or no ask were skipped
TypeT_SkipsOneSided(ords, snaps, r) ==
  LET timestamp == r.seconds
      tickers == { ords[k].symbol : k \in DOMAIN ords }
      both == { t \in tickers : DOMAIN SideLevels(ords, t, TRUE) # {}
                                /\ DOMAIN SideLevels(ords, t, FALSE) # {} }
  IN [t \in DOMAIN snaps \cup both |->
        IF t \in both
        THEN Append(IF t \in DOMAIN snaps THEN snaps[t] ELSE <<>>,
                    Snapshot(ords, t, timestamp))
        ELSE snaps[t]]

\* TypeT as it would be if the ticker's list were assigned, not appended to
TypeT_Overwrites(ords, snaps, r) ==
  LET timestamp == r.seconds
      tickers == { ords[k].symbol : k \in DOMAIN ords }
  IN [t \in DOMAIN snaps \cup tickers |->
        IF t \in tickers
        THEN <<Snapshot(ords, t, timestamp)>>
        ELSE snaps[t]]

\* Type T: Timestamp - snapshot the order book
TypeT(ords, snaps, r) ==
  LET timestamp == r.seconds
      tickers == { ords[k].symbol : k \in DOMAIN ords }
  IN [t \in DOMAIN snaps \cup tickers |->
        IF t \in tickers
        THEN Append(IF t \in DOMAIN snaps THEN snaps[t] ELSE <<>>,
                    Snapshot(ords, t, timestamp))
        ELSE snaps[t]]

\* ---------------------------------------------------------------- the writer

\* the column bid_<i>_price, bid_<i>_qty, ask_<i>_price or ask_<i>_qty
Field_(side, i, cell) == side \o "_" \o ToString(i) \o "_" \o cell

\* fieldnames
FieldNames ==
  {"ticker", "timestamp"}
  \cup { Field_(side, i, cell) : side \in {"bid", "ask"}, i \in 1..Pairs, cell \in {"price", "qty"} }

\* f"{price:.2f}" of a price kept in cents
Format2f(price) ==
  ToString(price \div 100) \o "." \o (IF price % 100 < 10 THEN "0" ELSE "")
  \o ToString(price % 100)

\* Filled as it would be with `i + 1 < len(prices)`
Filled_OffByOne(i, prices) == i < Len(prices)

\* `if i < len(prices)` for the pair bid_<i> or ask_<i> (i counts from 1 here)
Filled(i, prices) == i <= Len(prices)

\* which pair of which side a column belongs to, and whether it is the price
\* or the qty of the pair
ColumnOf ==
  [n \in FieldNames \ {"ticker", "timestamp"} |->
     CHOOSE c \in {"bid", "ask"} \X (1..Pairs) \X {"price", "qty"} :
       Field_(c[1], c[2], c[3]) = n]

\* what one pass of `for i in range(5)` puts into one column of pair i: the
\* i-th price of the sorted keys or its quantity (written as str(qty)), or
\* an empty cell
Cell(prices, items, i, cell) ==
  IF Filled(i, prices)
  THEN IF cell = "price" THEN Format2f(prices[i])
       ELSE ToString((CHOOSE x \in Range(items) : x[1] = prices[i])[2])
  ELSE ""

\* row_data of one snapshot
RowData(ticker, snap) ==
  LET bid_prices == Sorted(Keys(snap.bids), TRUE)
      ask_prices == Sorted(Keys(snap.asks), FALSE)
  IN [n \in FieldNames |->
        IF n = "ticker" THEN ticker
        ELSE IF n = "timestamp" THEN snap.timestamp
        ELSE IF ColumnOf[n][1] = "bid"
             THEN Cell(bid_prices, snap.bids, ColumnOf[n][2], ColumnOf[n][3])
             ELSE Cell(ask_prices, snap.asks, ColumnOf[n][2], ColumnOf[n][3])]

\* the order of str on the symbols the rows carry
StrRank == ("ABC" :> 1) @@ ("XYZ" :> 2)

RECURSIVE SortedItems_Descending(_)
\* SortedItems as it would be with reverse=True
SortedItems_Descending(d) ==
  IF DOMAIN d = {} THEN <<>>
  ELSE LET t == CHOOSE t \in DOMAIN d : \A u \in DOMAIN d : StrRank[t] >= StrRank[u]
       IN <<t>> \o SortedItems_Descending([u \in DOMAIN d \ {t} |-> d[u]])

RECURSIVE SortedItems(_)
\* sorted(snapshots_by_ticker.items()): the keys differ, so the items are in
\* the order of their tickers
SortedItems(d) ==
  IF DOMAIN d = {} THEN <<>>
  ELSE LET t == CHOOSE t \in DOMAIN d : \A u \in DOMAIN d : StrRank[t] <= StrRank[u]
       IN <<t>> \o SortedItems([u \in DOMAIN d \ {t} |-> d[u]])

RECURSIVE WrittenRows(_, _)
\* the rows the two loops of the writer write, ticker by ticker
WrittenRows(tickers, snaps) ==
  IF tickers = <<>> THEN <<>>
  ELSE [i \in 1..Len(snaps[tickers[1]]) |-> RowData(tickers[1], snaps[tickers[1]][i])]
       \o WrittenRows(Tail(tickers), snaps)

\* writer.writeheader(): a row that maps every field name to itself
Header == [n \in FieldNames |-> n]

\* ---------------------------------------------------------------- history

\* For every live order: the quantity it had when it was last named by an Add
\* or a Replace, less what the Executes on it since then have executed, and
\* whether there was such an Execute.
NextTrack(tr, r, after) ==
  [id \in DOMAIN after |->
     IF r.message_type \in {"A", "U"} /\ r.order_id = id
     THEN [rem |-> after[id].qty, any |-> FALSE]
     ELSE IF r.message_type = "e" /\ r.order_id = id /\ CanInt(r.quantity)
             /\ id \in DOMAIN tr
     THEN [rem |-> tr[id].rem - IntTable[r.quantity], any |-> TRUE]
     ELSE IF id \in DOMAIN tr THEN tr[id]
     ELSE [rem |-> after[id].qty, any |-> FALSE]]

\* ---------------------------------------------------------------- the loop

\* the decoders have been given nothing
NoDecoding ==
  /\ stream = <<>>
  /\ records = <<>>
  /\ frames = <<>>
  /\ parser = "reading"
  /\ msg = <<>>
  /\ decoded = EmptyDict

Init ==
  /\ orders = EmptyDict
  /\ snapshots_by_ticker = EmptyDict
  /\ msg_count = 0
  /\ row = BlankRow("")
  /\ before = EmptyDict
  /\ track = EmptyDict
  /\ crashed = FALSE
  /\ output = <<>>
  /\ triggered = {}
  /\ NoDecoding

\* the Timestamp rows read so far, each with the symbols live when it was read
NextTriggered(r) ==
  IF r.message_type = "T"
  THEN triggered \cup { <<msg_count + 1, orders[k].symbol, r.seconds>> : k \in DOMAIN orders }
  ELSE triggered

\* for row in reader: msg_count += 1
Read(r) ==
  /\ ~crashed
  /\ output = <<>>
  /\ msg_count < MaxEvents
  /\ msg_count' = msg_count + 1
  /\ row' = r
  /\ before' = orders
  /\ triggered' = NextTriggered(r)
  /\ UNCHANGED <<dvars, output>>

\* the try block ends: the dict it leaves, and whether its except clause caught
Leave(res, caught, r) ==
  /\ orders' = res.orders
  /\ crashed' = (res.exc \notin caught \cup {"none"})
  /\ track' = NextTrack(track, r, res.orders)

StepA ==
  \E r \in AddRows :
    Read(r) /\ Leave(TypeA(orders, r), ExceptAE, r) /\ UNCHANGED snapshots_by_ticker

StepE ==
  \E r \in ExecuteRows :
    Read(r) /\ Leave(TypeE(orders, r), ExceptAE, r) /\ UNCHANGED snapshots_by_ticker

StepD ==
  \E r \in DeleteRows :
    Read(r) /\ Leave(TypeD(orders, r), {}, r) /\ UNCHANGED snapshots_by_ticker

StepU ==
  \E r \in ReplaceRows :
    Read(r) /\ Leave(TypeU(orders, r), ExceptU, r) /\ UNCHANGED snapshots_by_ticker

\* the type T branch as it would be if the orders outside the snapshot's
\* levels were dropped from the dict
Trigger_Prunes(r) ==
  /\ snapshots_by_ticker' = TypeT(orders, snapshots_by_ticker, r)
  /\ orders' =
       [k \in { j \in DOMAIN orders :
                  LET snap == Snapshot(orders, orders[j].symbol, r.seconds)
                  IN orders[j].price \in Keys(snap.bids) \cup Keys(snap.asks) }
          |-> orders[k]]
  /\ UNCHANGED <<track, crashed>>

\* the type T branch: it reads `orders` and appends to snapshots_by_ticker
Trigger(r) ==
  /\ snapshots_by_ticker' = TypeT(orders, snapshots_by_ticker, r)
  /\ UNCHANGED <<orders, track, crashed>>

StepT == \E r \in TimestampRows : Read(r) /\ Trigger(r)

\* a row of any other message type: no branch runs
StepOther ==
  \E r \in OtherRows : Read(r) /\ UNCHANGED <<orders, snapshots_by_ticker, track, crashed>>

\* the reader is exhausted: the header and one row per snapshot are written
Write ==
  /\ ~crashed
  /\ output = <<>>
  /\ output' = <<Header>> \o WrittenRows(SortedItems(snapshots_by_ticker), snapshots_by_ticker)
  /\ UNCHANGED <<orders, snapshots_by_ticker, msg_count, row, before, track, crashed,
                 triggered, dvars>>

\* for row in reader: one row, of any type
Loop == StepA \/ StepE \/ StepD \/ StepU \/ StepT \/ StepOther

Next == Loop \/ Write

Spec == Init /\ [][Next]_vars

\* ---------------------------------------------------------------- deep books
\* The aggregation of the type T branch on books deeper than `Spec` reaches:
\* the loop after a run of Add rows that left one order per chosen price.

\* the cents of the i-th price of the bid grid and of the ask grid
BidPrice(i) == 1000 + 50 * i
AskPrice(i) == 1400 + 50 * i

\* the entry orders[order_id] = {...} an Add row leaves
Order(sym, sd, p, q) == [symbol |-> sym, side |-> sd, price |-> p, qty |-> q, timestamp |-> 3]

\* the dict after the Add rows of: ABC bids of 100 at the grid prices in `bs`,
\* the first `n` ABC asks, optionally a second ABC bid of 50 at the lowest
\* grid price, optionally one XYZ order whose side cell is the '0x58' that
\* decode_side writes for a side byte it does not know
Book(bs, n, dup, other) ==
  LET bid_ids == { ToString(i) : i \in bs }
      ask_ids == { ToString(100 + i) : i \in 0..(n - 1) }
      ids == bid_ids \cup ask_ids \cup (IF dup THEN {"200"} ELSE {})
                     \cup (IF other THEN {"300"} ELSE {})
  IN [k \in ids |->
        IF k = "200" THEN Order("ABC", "B", BidPrice(0), 50)
        ELSE IF k = "300" THEN Order("XYZ", "0x58", BidPrice(0), 100)
        ELSE IF k \in bid_ids
             THEN Order("ABC", "B", BidPrice(CHOOSE i \in bs : ToString(i) = k), 100)
             ELSE Order("ABC", "S", AskPrice(CHOOSE i \in 0..(n - 1) : ToString(100 + i) = k), 100)]

Books ==
  { Book(bs, n, dup, other) :
      bs \in SUBSET (0..(BookDepth - 1)), n \in {0, 1, BookDepth},
      dup \in BOOLEAN, other \in BOOLEAN }

\* the loop after the Add rows of a book, one row per order
InitBook ==
  /\ orders \in Books
  /\ snapshots_by_ticker = EmptyDict
  /\ msg_count = Cardinality(DOMAIN orders)
  /\ row = BlankRow("")
  /\ before = orders
  /\ track = [k \in DOMAIN orders |-> [rem |-> orders[k].qty, any |-> FALSE]]
  /\ crashed = FALSE
  /\ output = <<>>
  /\ triggered = {}
  /\ NoDecoding

\* the next row is a Timestamp row
BookT ==
  \E r \in TimestampRows :
    /\ ~crashed
    /\ output = <<>>
    /\ msg_count - Cardinality(DOMAIN orders) < MaxTriggers
    /\ msg_count' = msg_count + 1
    /\ row' = r
    /\ before' = orders
    /\ triggered' = NextTriggered(r)
    /\ UNCHANGED <<dvars, output>>
    /\ Trigger(r)

NextBook == BookT

SpecBook == InitBook /\ [][NextBook]_vars

\* the loop on a prepared book, and the writer after it
NextWrite == BookT \/ Write

SpecWrite == InitBook /\ [][NextWrite]_vars

\* ---------------------------------------------------------------- bytes and text

\* ord(c) of the characters the decoders name
Ord ==
  [c \in {"A", "B", "C", "D", "E", "H", "L", "M", "P", "Q", "R", "S", "T", "U",
          "V", "W", "X", "Y", "Z", "e", "f", "k", "s"} |->
     CASE c = "A" -> 65 [] c = "B" -> 66 [] c = "C" -> 67 [] c = "D" -> 68
       [] c = "E" -> 69 [] c = "H" -> 72 [] c = "L" -> 76 [] c = "M" -> 77
       [] c = "P" -> 80 [] c = "Q" -> 81 [] c = "R" -> 82 [] c = "S" -> 83
       [] c = "T" -> 84 [] c = "U" -> 85 [] c = "V" -> 86 [] c = "W" -> 87
       [] c = "X" -> 88 [] c = "Y" -> 89 [] c = "Z" -> 90 [] c = "e" -> 101
       [] c = "f" -> 102 [] c = "k" -> 107 [] c = "s" -> 115]

\* b[lo:hi] and b[lo:] of a bytes object
Slice(b, lo, hi) == SubSeq(b, lo + 1, Min(hi, Len(b)))
SliceFrom(b, lo) == SubSeq(b, lo + 1, Len(b))

RECURSIVE BigEndian(_)
\* struct.unpack('>I' / '>Q' / '>H') and int.from_bytes(b, 'big'): the frames
\* checked keep every unsigned field below 2^31
BigEndian(b) ==
  IF b = <<>> THEN 0 ELSE BigEndian(SubSeq(b, 1, Len(b) - 1)) * 256 + b[Len(b)]

\* struct.unpack('>i'): two's complement of 4 bytes
Signed32(b) == BigEndian(<<IF b[1] >= 128 THEN b[1] - 256 ELSE b[1]>> \o Tail(b))

\* the float n / den of a 4-byte price field, n being the bytes read signed
\* ('>i') or unsigned ('>I'): n is kept as num + wraps * 2^32 with num the
\* signed reading, so that the unsigned values from 2^31 up are held exactly;
\* two such floats are equal exactly when num, wraps and den are
Price(b, signed, den) ==
  [num |-> Signed32(b), wraps |-> IF ~signed /\ b[1] >= 128 THEN 1 ELSE 0, den |-> den]

\* the characters str.strip() removes from ASCII text
Whitespace == {9, 10, 11, 12, 13, 28, 29, 30, 31, 32}

RECURSIVE RStripSet(_, _)
RStripSet(t, S) ==
  IF t # <<>> /\ t[Len(t)] \in S THEN RStripSet(SubSeq(t, 1, Len(t) - 1), S) ELSE t

RECURSIVE LStripSet(_, _)
LStripSet(t, S) == IF t # <<>> /\ t[1] \in S THEN LStripSet(Tail(t), S) ELSE t

\* .decode('ascii', errors='replace') and errors='ignore'
DecodeReplace(b) == [i \in DOMAIN b |-> IF b[i] < 128 THEN b[i] ELSE 65533]
DecodeIgnore(b) == SelectSeq(b, LAMBDA x : x < 128)

\* payload[lo:hi].decode('ascii', errors='replace').strip()
StripText(b) == LStripSet(RStripSet(DecodeReplace(b), Whitespace), Whitespace)

\* the digits of bytes.hex() and of the :02X format
HexLower == <<48, 49, 50, 51, 52, 53, 54, 55, 56, 57, 97, 98, 99, 100, 101, 102>>
HexUpper == <<48, 49, 50, 51, 52, 53, 54, 55, 56, 57, 65, 66, 67, 68, 69, 70>>

RECURSIVE Hex(_)
Hex(b) ==
  IF b = <<>> THEN <<>>
  ELSE <<HexLower[(b[1] \div 16) + 1], HexLower[(b[1] % 16) + 1]>> \o Hex(Tail(b))

\* f'0x{byte:02X}'
Hex0x(byte) == <<48, 120, HexUpper[(byte \div 16) + 1], HexUpper[(byte % 16) + 1]>>

\* ---------------------------------------------------------------- parse_itch

\* one field a branch of parse_itch extracts: record[name] from payload[lo:hi]
\* ("I", "Q": struct.unpack; "price100", "price10000": '>I' divided by the
\* scale; "text": decode and strip; "chr": chr(payload[lo]); "zero": the literal 0)
Field(name, kind, lo, hi) == [name |-> name, kind |-> kind, lo |-> lo, hi |-> hi]

\* the if/elif chain of parse_itch: per message type, the length its branch
\* requires, the fields it sets and its description template.  (The second
\* `elif msg_type == 'A'` branch, NOII, is never reached.)
ParseBranches ==
  [t \in { Ord[c] : c \in {"T", "R", "S", "H", "Y", "L", "V", "W", "A", "e",
                           "E", "C", "X", "D", "U", "P", "Q", "B"} } |->
     CASE t = Ord["T"] ->
            [min |-> 5, description |-> "Timestamp: {seconds}s past midnight",
             fields |-> <<Field("seconds", "I", 1, 5)>>]
       [] t = Ord["R"] ->
            [min |-> 47, description |-> "Symbol: {symbol}, Market: {market}",
             fields |-> <<Field("symbol", "text", 11, 23), Field("market", "text", 43, 47)>>]
       [] t = Ord["S"] ->
            [min |-> 18, description |-> "System Event: {event_code}",
             fields |-> <<Field("event_code", "chr", 17, 18)>>]
       [] t = Ord["H"] ->
            [min |-> 21, description |-> "Trading Status: {symbol} = {status}",
             fields |-> <<Field("symbol", "text", 11, 23), Field("status", "chr", 20, 21)>>]
       [] t = Ord["Y"] ->
            [min |-> 20, description |-> "Reg SHO: {symbol} = {action}",
             fields |-> <<Field("symbol", "text", 11, 23), Field("action", "chr", 19, 20)>>]
       [] t = Ord["L"] ->
            [min |-> 20, description |-> "IPO: {symbol}",
             fields |-> <<Field("symbol", "text", 11, 23)>>]
       [] t = Ord["V"] ->
            [min |-> 35, description |-> "LULD: {symbol}",
             fields |-> <<Field("symbol", "text", 11, 23)>>]
       [] t = Ord["W"] ->
            [min |-> 20, description |-> "IPO Quoting: {symbol}",
             fields |-> <<Field("symbol", "text", 11, 23)>>]
       [] t = Ord["A"] ->
            [min |-> 30, description |-> "Add Order: {symbol} {qty}@{price/100:.2f} {side}",
             fields |-> <<Field("timestamp", "I", 1, 5), Field("order_id", "Q", 5, 13),
                          Field("symbol", "text", 13, 21), Field("quantity", "I", 21, 25),
                          Field("price", "price100", 25, 29), Field("side", "chr", 29, 30)>>]
       [] t = Ord["e"] ->
            [min |-> 25, description |-> "Execute: {qty}@{price/100:.2f}",
             fields |-> <<Field("timestamp", "I", 1, 5), Field("order_id", "Q", 5, 13),
                          Field("quantity", "I", 13, 17), Field("price", "price100", 17, 21)>>]
       [] t = Ord["E"] ->
            [min |-> 30, description |-> "Executed: {qty}@{price/10000:.2f}",
             fields |-> <<Field("order_id", "Q", 11, 19), Field("quantity", "I", 19, 23),
                          Field("price", "price10000", 23, 27)>>]
       [] t = Ord["C"] ->
            [min |-> 35, description |-> "Executed (Partial): {qty}@{price/10000:.2f}",
             fields |-> <<Field("order_id", "Q", 11, 19), Field("quantity", "I", 19, 23),
                          Field("price", "price10000", 23, 27)>>]
       [] t = Ord["X"] ->
            [min |-> 23, description |-> "Cancel Order: -{qty}",
             fields |-> <<Field("order_id", "Q", 11, 19), Field("quantity", "I", 19, 23)>>]
       [] t = Ord["D"] ->
            [min |-> 13, description |-> "Delete Order: {order_id}",
             fields |-> <<Field("timestamp", "I", 1, 5), Field("order_id", "Q", 5, 13),
                          Field("quantity", "zero", 0, 0)>>]
       [] t = Ord["U"] ->
            [min |-> 25, description |-> "Replace Order: {old_order_id} -> {new_order_id} {qty}",
             fields |-> <<Field("timestamp", "I", 1, 5), Field("old_order_id", "Q", 5, 13),
                          Field("order_id", "Q", 13, 21), Field("quantity", "I", 21, 25)>>]
       [] t = Ord["P"] ->
            [min |-> 43, description |-> "Trade: {symbol} {qty}@{price/10000:.2f}",
             fields |-> <<Field("order_id", "Q", 11, 19), Field("quantity", "I", 19, 23),
                          Field("symbol", "text", 23, 35), Field("price", "price10000", 35, 39),
                          Field("buyer_order_id", "Q", 39, 47)>>]
       [] t = Ord["Q"] ->
            [min |-> 43, description |-> "Cross Trade: {symbol} {qty}@{price/10000:.2f}",
             fields |-> <<Field("quantity", "I", 11, 15), Field("symbol", "text", 15, 27),
                          Field("price", "price10000", 27, 31)>>]
       [] t = Ord["B"] ->
            [min |-> 19, description |-> "Broken Trade: {order_id}",
             fields |-> <<Field("order_id", "Q", 11, 19)>>]]

\* struct.unpack raises struct.error on a slice that is not 4 ('>I') or 8 ('>Q') bytes
UnpackRaises(payload, f) ==
  \/ f.kind \in {"I", "price100", "price10000"} /\ Len(Slice(payload, f.lo, f.hi)) # 4
  \/ f.kind = "Q" /\ Len(Slice(payload, f.lo, f.hi)) # 8

\* the value a branch of parse_itch extracts for one field
ParsedValue(payload, f) ==
  CASE f.kind \in {"I", "Q"} -> BigEndian(Slice(payload, f.lo, f.hi))
    [] f.kind = "price100" -> Price(Slice(payload, f.lo, f.hi), FALSE, 100)
    [] f.kind = "price10000" -> Price(Slice(payload, f.lo, f.hi), FALSE, 10000)
    [] f.kind = "text" -> StripText(Slice(payload, f.lo, f.hi))
    [] f.kind = "chr" -> <<payload[f.lo + 1]>>
    [] f.kind = "zero" -> 0

\* the record the loop body appends for one payload: the branch of its type
\* fills it when the payload is long enough; an exception inside the try
\* leaves the bare record with 'error' (the values are unpacked before the
\* first record[...] = ... of a branch)
ParseRecord(payload, msg_len) ==
  LET msg_type == payload[1]
      record == ("message_type" :> <<msg_type>>) @@ ("raw_length" :> msg_len)
  IN IF msg_type \in DOMAIN ParseBranches /\ Len(payload) >= ParseBranches[msg_type].min
     THEN LET branch == ParseBranches[msg_type]
          IN IF \E i \in DOMAIN branch.fields : UnpackRaises(payload, branch.fields[i])
             THEN record @@ ("error" :> "unpack requires a buffer of 8 bytes")
             ELSE record
                  @@ [n \in { branch.fields[i].name : i \in DOMAIN branch.fields } |->
                        ParsedValue(payload,
                          branch.fields[CHOOSE i \in DOMAIN branch.fields :
                                          branch.fields[i].name = n])]
                  @@ ("description" :> branch.description)
     ELSE record

\* ---------------------------------------------------------------- decode_message

\* one field a parse_message_type_* function extracts: rec[name], set when
\* len(msg) >= need ("bytes": msg[lo:hi]; "int": big-endian unsigned;
\* "text_replace" / "text_ignore": rstrip(b'\x00 ') then decode; "price":
\* decode_price; "side": decode_side; "hex": msg[lo:hi].hex(); "hex_rest":
\* msg[lo:].hex())
Guarded(name, need, kind, lo, hi) ==
  [name |-> name, need |-> need, kind |-> kind, lo |-> lo, hi |-> hi]

\* the fields parse_message_type_a and parse_message_type_k share
AddOrderFields ==
  <<Guarded("msg_type_byte", 1, "bytes", 0, 1), Guarded("timestamp", 5, "int", 1, 5),
    Guarded("order_id", 13, "int", 5, 13), Guarded("symbol", 21, "text_replace", 13, 21),
    Guarded("quantity", 25, "int", 21, 25), Guarded("price", 29, "price", 25, 29),
    Guarded("side", 30, "side", 29, 30)>>

\* the `decoders` dict of decode_message: per message type the parse function,
\* as its type name, its message_length (0: len(msg)) and its guarded fields
Decoders ==
  [t \in { Ord[c] : c \in {"A", "R", "k", "H", "f", "L", "s", "M", "S", "T"} } |->
     CASE t = Ord["A"] ->
            [type_name |-> "Add Order", message_length |-> 30, fields |-> AddOrderFields]
       [] t = Ord["R"] ->
            [type_name |-> "Trade Report (PSE-specific)", message_length |-> 0,
             fields |-> <<Guarded("msg_type_byte", 1, "bytes", 0, 1),
                          Guarded("timestamp", 5, "int", 1, 5),
                          Guarded("order_id", 13, "int", 5, 13),
                          Guarded("raw_payload", 14, "hex_rest", 13, 13),
                          Guarded("symbol_raw", 28, "text_ignore", 13, 21)>>]
       [] t = Ord["k"] ->
            [type_name |-> "Order Book/Quote Update (PSE-specific)", message_length |-> 30,
             fields |-> AddOrderFields]
       [] t = Ord["H"] ->
            [type_name |-> "Trading Status", message_length |-> 11,
             fields |-> <<Guarded("msg_type_byte", 1, "bytes", 0, 1),
                          Guarded("timestamp", 5, "int", 1, 5),
                          Guarded("status_code", 11, "text_ignore", 5, 11)>>]
       [] t = Ord["f"] ->
            [type_name |-> "Unknown PSE Type (f)", message_length |-> 24,
             fields |-> <<Guarded("msg_type_byte", 1, "bytes", 0, 1),
                          Guarded("timestamp", 5, "int", 1, 5),
                          Guarded("raw_payload", 6, "hex_rest", 5, 5)>>]
       [] t = Ord["L"] ->
            [type_name |-> "Listing/IPO", message_length |-> 17,
             fields |-> <<Guarded("msg_type_byte", 1, "bytes", 0, 1),
                          Guarded("timestamp", 5, "int", 1, 5),
                          Guarded("symbol", 13, "text_replace", 5, 13),
                          Guarded("extra_data", 17, "hex", 13, 17)>>]
       [] t = Ord["s"] ->
            [type_name |-> "Unknown PSE Type (s)", message_length |-> 22,
             fields |-> <<Guarded("msg_type_byte", 1, "bytes", 0, 1),
                          Guarded("timestamp", 5, "int", 1, 5),
                          Guarded("identifier", 13, "text_replace", 5, 13),
                          Guarded("raw_payload", 14, "hex_rest", 13, 13)>>]
       [] t = Ord["M"] ->
            [type_name |-> "Unknown PSE Type (M)", message_length |-> 25,
             fields |-> <<Guarded("msg_type_byte", 1, "bytes", 0, 1),
                          Guarded("timestamp", 5, "int", 1, 5),
                          Guarded("raw_payload", 6, "hex_rest", 5, 5)>>]
       [] t = Ord["S"] ->
            [type_name |-> "Stock Trade", message_length |-> 0,
             fields |-> <<Guarded("msg_type_byte", 1, "bytes", 0, 1),
                          Guarded("timestamp", 5, "int", 1, 5),
                          Guarded("order_id", 13, "int", 5, 13),
                          Guarded("symbol", 21, "text_replace", 13, 21),
                          Guarded("quantity", 25, "int", 21, 25)>>]
       [] t = Ord["T"] ->
            [type_name |-> "System Sync", message_length |-> 5,
             fields |-> <<Guarded("msg_type_byte", 1, "bytes", 0, 1),
                          Guarded("counter", 5, "int", 1, 5)>>]]

\* decode_price(data, scale=2): the signed value over 10 ** 2
decode_price(data) == Price(data, TRUE, 100)

\* decode_side(byte)
decode_side(byte) == IF byte[1] \in {Ord["B"], Ord["S"]} THEN <<byte[1]>> ELSE Hex0x(byte[1])

\* the value a parse function extracts for one field
GuardedValue(m, f) ==
  CASE f.kind = "bytes" -> Slice(m, f.lo, f.hi)
    [] f.kind = "int" -> BigEndian(Slice(m, f.lo, f.hi))
    [] f.kind = "text_replace" -> DecodeReplace(RStripSet(Slice(m, f.lo, f.hi), {0, 32}))
    [] f.kind = "text_ignore" -> DecodeIgnore(RStripSet(Slice(m, f.lo, f.hi), {0, 32}))
    [] f.kind = "price" -> decode_price(Slice(m, f.lo, f.hi))
    [] f.kind = "side" -> decode_side(Slice(m, f.lo, f.hi))
    [] f.kind = "hex" -> Hex(Slice(m, f.lo, f.hi))
    [] f.kind = "hex_rest" -> Hex(SliceFrom(m, f.lo))

\* decoder(msg) for one entry of the `decoders` dict
ParseMessageType(t, m) ==
  LET d == Decoders[t]
      set == { i \in DOMAIN d.fields : Len(m) >= d.fields[i].need }
  IN ("message_type" :> <<t>>)
     @@ ("type_name" :> d.type_name)
     @@ ("message_length" :> IF d.message_length = 0 THEN Len(m) ELSE d.message_length)
     @@ [n \in { d.fields[i].name : i \in set } |->
           GuardedValue(m, d.fields[CHOOSE i \in set : d.fields[i].name = n])]

\* msg_type = chr(msg[0]) if 32 <= msg[0] < 127 else f'0x{msg[0]:02X}'
TagName(byte) == IF 32 <= byte /\ byte < 127 THEN <<byte>> ELSE Hex0x(byte)

decode_message(m) ==
  IF m = <<>>
  THEN ("error" :> "Empty message")
  ELSE IF 32 <= m[1] /\ m[1] < 127 /\ m[1] \in DOMAIN Decoders
  THEN ParseMessageType(m[1], m)
  ELSE ("message_type" :> TagName(m[1])) @@ ("type_name" :> "Unknown")
       @@ ("message_length" :> Len(m)) @@ ("raw" :> Hex(m))

\* ---------------------------------------------------------------- frames given to the decoders

\* the bytes after the type byte of an Add Order: timestamp 3, order id 1,
\* symbol 'ABC     ', quantity 100, price 1000, side 'B'
AddBody ==
  <<0, 0, 0, 3>> \o <<0, 0, 0, 0, 0, 0, 0, 1>> \o <<65, 66, 67, 32, 32, 32, 32, 32>>
  \o <<0, 0, 0, 100>> \o <<0, 0, 3, 232>> \o <<66>>

\* the bytes after the type byte of a Replace Order: timestamp 3, ids 1 and 2, quantity 200
ReplaceBody ==
  <<0, 0, 0, 3>> \o <<0, 0, 0, 0, 0, 0, 0, 1>> \o <<0, 0, 0, 0, 0, 0, 0, 2>> \o <<0, 0, 0, 200>>

\* a frame of n bytes with type byte t: the body of its kind, cut or padded with NUL
Frame(t, n) ==
  LET body == IF t = Ord["U"] THEN ReplaceBody
              ELSE IF t \in { Ord[c] : c \in {"E", "C", "X", "P", "Q", "B"} } THEN <<>>
              ELSE AddBody
  IN [i \in 1..n |-> IF i = 1 THEN t ELSE IF i - 1 <= Len(body) THEN body[i - 1] ELSE 0]

\* full and short frames of every type either decoder names, of the types
\* neither names ('Z', 0x01, 0xC8), and the empty frame
Frames ==
  { Frame(Ord["A"], n) : n \in {1, 4, 5, 12, 13, 20, 21, 24, 25, 28, 29, 30, 31} }
  \cup { Frame(Ord["R"], n) : n \in {13, 14, 21, 28, 47, 90} }
  \cup { Frame(Ord["f"], n) : n \in {5, 24} }
  \cup { Frame(Ord["M"], n) : n \in {25} }
  \cup { Frame(Ord["Z"], n) : n \in {1, 8} }
  \cup { Frame(1, 8), Frame(200, 1) }
  \cup { Frame(Ord["T"], n) : n \in {3, 5} }
  \cup { Frame(Ord["k"], 30), Frame(Ord["s"], 22), Frame(Ord["H"], 11), Frame(Ord["H"], 21),
         Frame(Ord["L"], 17), Frame(Ord["L"], 20), Frame(Ord["S"], 18), Frame(Ord["S"], 25),
         Frame(Ord["Y"], 20), Frame(Ord["V"], 35), Frame(Ord["W"], 20),
         Frame(Ord["e"], 24), Frame(Ord["e"], 25), Frame(Ord["E"], 30), Frame(Ord["C"], 35),
         Frame(Ord["X"], 23), Frame(Ord["D"], 12), Frame(Ord["D"], 13), Frame(Ord["U"], 25),
         Frame(Ord["P"], 43), Frame(Ord["P"], 47), Frame(Ord["Q"], 43), Frame(Ord["B"], 19) }
  \cup { <<>> }

\* a 30-byte Add Order with the given symbol, price and side bytes
AddFrame(symbol, price, side) ==
  <<Ord["A"]>> \o <<0, 0, 0, 3>> \o <<0, 0, 0, 0, 0, 0, 0, 1>> \o symbol
  \o <<0, 0, 0, 100>> \o price \o <<side>>

\* Add Orders with the symbol padded with spaces, with NUL bytes or on both
\* sides, the price 10.00, 0x80000000 or 0xFFFFFFFF, and the side 'B', 'S' or 'X'
AddFrames ==
  { AddFrame(symbol, price, side) :
      symbol \in { <<65, 66, 67, 32, 32, 32, 32, 32>>, <<65, 66, 67, 0, 0, 0, 0, 0>>,
                   <<32, 32, 65, 66, 67, 32, 32, 32>> },
      price \in { <<0, 0, 3, 232>>, <<128, 0, 0, 0>>, <<255, 255, 255, 255>> },
      side \in { 66, 83, 88 } }

\* the frames that files of more than one frame are made of
StreamFrames ==
  { Frame(Ord["A"], 30), Frame(Ord["A"], 29), Frame(Ord["R"], 90), Frame(Ord["f"], 24),
    Frame(Ord["M"], 25), Frame(Ord["Z"], 1), Frame(Ord["Z"], 8), Frame(Ord["T"], 5),
    Frame(Ord["D"], 13), Frame(Ord["U"], 25), Frame(Ord["P"], 43), <<>> }

\* a payload behind its 2-byte big-endian length
Framed(payload) == <<Len(payload) \div 256, Len(payload) % 256>> \o payload

RECURSIVE Join(_)
Join(fs) == IF fs = <<>> THEN <<>> ELSE Framed(Head(fs)) \o Join(Tail(fs))

\* a file, and the file that ends one byte early
Cuts(file) == { file, SubSeq(file, 1, Len(file) - 1) }

Files ==
  UNION { Cuts(Framed(f)) : f \in Frames }
  \cup UNION { Cuts(Join(fs)) : fs \in UNION { [1..n -> StreamFrames] : n \in 0..MaxFrames } }

\* ---------------------------------------------------------------- the decoders run

\* parse_itch is given a file, or decode_message a frame, or both are given
\* the same Add Order
InitDecode ==
  /\ orders = EmptyDict
  /\ snapshots_by_ticker = EmptyDict
  /\ msg_count = 0
  /\ row = BlankRow("")
  /\ before = EmptyDict
  /\ track = EmptyDict
  /\ crashed = FALSE
  /\ output = <<>>
  /\ triggered = {}
  /\ \/ stream \in Files /\ msg = <<>>
     \/ stream = <<>> /\ msg \in Frames
     \/ msg \in AddFrames /\ stream = Framed(msg)
  /\ records = <<>>
  /\ frames = <<>>
  /\ parser = "reading"
  /\ decoded = EmptyDict

\* len_bytes = f.read(2); if not len_bytes: break
ReadEnd ==
  /\ parser = "reading"
  /\ stream = <<>>
  /\ parser' = "done"
  /\ UNCHANGED <<bvars, stream, records, frames, msg, decoded>>

\* one byte is left: struct.unpack('>H', len_bytes) raises outside the try
ReadHalfLength ==
  /\ parser = "reading"
  /\ Len(stream) = 1
  /\ parser' = "struct.error"
  /\ stream' = <<>>
  /\ UNCHANGED <<bvars, records, frames, msg, decoded>>

\* payload = f.read(msg_len); if not payload: break
ReadNoPayload ==
  /\ parser = "reading"
  /\ Len(stream) >= 2
  /\ Slice(stream, 2, 2 + BigEndian(Slice(stream, 0, 2))) = <<>>
  /\ parser' = "done"
  /\ stream' = SliceFrom(stream, 2)
  /\ UNCHANGED <<bvars, records, frames, msg, decoded>>

\* a payload was read: its record is appended, by the try or by its except
ReadFrame ==
  /\ parser = "reading"
  /\ Len(stream) >= 2
  /\ LET msg_len == BigEndian(Slice(stream, 0, 2))
         payload == Slice(stream, 2, 2 + msg_len)
     IN /\ payload # <<>>
        /\ records' = Append(records, ParseRecord(payload, msg_len))
        /\ frames' = Append(frames, [length |-> msg_len, payload |-> payload])
        /\ stream' = SliceFrom(stream, 2 + Len(payload))
  /\ UNCHANGED <<bvars, parser, msg, decoded>>

\* decode_message(msg) is called
Decode ==
  /\ DOMAIN decoded = {}
  /\ decoded' = decode_message(msg)
  /\ UNCHANGED <<bvars, stream, records, frames, parser, msg>>

NextDecode == ReadEnd \/ ReadHalfLength \/ ReadNoPayload \/ ReadFrame \/ Decode

SpecDecode == InitDecode /\ [][NextDecode]_vars

TypeOK ==
  /\ DOMAIN orders \subseteq Ids
  /\ DOMAIN track = DOMAIN orders
  /\ msg_count \in 0..MaxEvents
  /\ crashed \in BOOLEAN

\* ---------------------------------------------------------------- claims
\* Every formula speaks of the state the loop is in after a row: `row` is the
\* row just handled, `before` the dict it was handled on, `orders` the dict
\* it left.

\* the price and quantity cells of a Replace row are each empty or a number
CellsParse(r) ==
  /\ (r.price = "" \/ CanFloat(r.price))
  /\ (r.quantity = "" \/ CanInt(r.quantity))

\* every entry other than those of the ids in `touched` is as it was
OthersKept(touched) ==
  /\ DOMAIN orders \ touched = DOMAIN before \ touched
  /\ \A k \in DOMAIN before \ touched : orders[k] = before[k]

\* C1 (invariant I1): every order id in the order store maps to an order with
\* quantity > 0, also after an Add or a Replace that carries quantity 0.
C1_QuantityPositive == \A id \in DOMAIN orders : orders[id].qty > 0

\* C2 (Replace is atomic): after a Replace row, also one whose price or
\* quantity cell does not parse, the store is the store before it, or has the
\* old id retired and the new id inserted; never "old removed, new missing".
C2_ReplaceAtomic ==
  row.message_type = "U" =>
    \/ orders = before
    \/ /\ row.old_order_id \in DOMAIN before
       /\ row.order_id \in DOMAIN orders
       /\ (row.old_order_id # row.order_id => row.old_order_id \notin DOMAIN orders)
       /\ OthersKept({row.old_order_id, row.order_id})

\* C3: a Replace whose old_order_id is not in the store changes nothing; no
\* entry for new_order_id is created or changed.
C3_ReplaceAbsentNoOp ==
  (row.message_type = "U" /\ row.old_order_id \notin DOMAIN before) => orders = before

\* C3 witness: a Replace of an absent old id onto the id of a live order has run
C3_Witness ==
  /\ row.message_type = "U"
  /\ row.old_order_id = "1"
  /\ row.old_order_id \notin DOMAIN before
  /\ row.order_id \in DOMAIN before
  /\ row.quantity = "200"
  /\ orders = before

C6_Execute ==
  row.message_type = "e" =>
    /\ row.order_id \notin DOMAIN before => orders = before
    /\ (row.order_id \in DOMAIN before /\ CanInt(row.quantity)) =>
         LET left == before[row.order_id].qty - IntTable[row.quantity]
         IN /\ OthersKept({row.order_id})
            /\ (row.order_id \in DOMAIN orders) <=> (left > 0)
            /\ left > 0 => orders[row.order_id] = [before[row.order_id] EXCEPT !.qty = left]

\* C6 witness (Scenario A): order 1 of quantity 100, after Execute 40, then
\* Execute 60: the entry is gone
C6_Witness ==
  /\ row.message_type = "e"
  /\ row.order_id = "1" /\ row.quantity = "60"
  /\ "1" \in DOMAIN before
  /\ before["1"].qty = 60
  /\ "1" \notin DOMAIN orders

\* C7 (P2): a live order of quantity q is absent once the Executes on its id,
\* with no Add or Replace naming the id in between, sum to at least q.
C7_ExecutedOut ==
  \A id \in DOMAIN orders :
    /\ id \in DOMAIN track
    /\ track[id].any => track[id].rem > 0

\* C7 witness: an order already executed in part was executed out by a further
\* Execute (the Adds carry quantity 100 or 0, the Replaces 200 or 0)
C7_Witness ==
  /\ row.message_type = "e"
  /\ row.order_id \in DOMAIN before
  /\ before[row.order_id].qty \in {40, 60}
  /\ IntTable[row.quantity] >= before[row.order_id].qty
  /\ row.order_id \notin DOMAIN orders
  /\ row.order_id \notin DOMAIN track

\* C8 (P1): a Delete of a live id removes exactly that entry, a Delete of an
\* absent id changes nothing, and the same Delete applied again to the store
\* a Delete left gives that store.
C8_DeleteIdempotent ==
  row.message_type = "D" =>
    /\ row.order_id \notin DOMAIN before => orders = before
    /\ row.order_id \in DOMAIN before =>
         (row.order_id \notin DOMAIN orders /\ OthersKept({row.order_id}))
    /\ TypeD(orders, row).orders = orders

\* C8 witness: a Delete of one of two live orders has run
C8_Witness ==
  /\ row.message_type = "D"
  /\ DOMAIN before = {"1", "2"}
  /\ DOMAIN orders = {"1", "2"} \ {row.order_id}
  /\ Cardinality(DOMAIN orders) = 1

\* C9: an Add whose order id is already in the store replaces the entry: the
\* id's symbol, side, price, quantity and timestamp are those of the Add, and
\* every other entry is unchanged.
C9_AddReplaces ==
  ( /\ row.message_type = "A"
    /\ row.order_id \in DOMAIN before
    /\ Strip(row.symbol) # ""
    /\ CanFloat(row.price) /\ CanInt(row.quantity) /\ CanInt(row.timestamp) ) =>
      /\ row.order_id \in DOMAIN orders
      /\ orders[row.order_id] =
           [symbol |-> Strip(row.symbol), side |-> Strip(row.side),
            price |-> FloatTable[row.price], qty |-> IntTable[row.quantity],
            timestamp |-> IntTable[row.timestamp]]
      /\ OthersKept({row.order_id})

\* C9 witness: an Add onto a live id, differing from the old entry in all five
\* fields, beside another live order
C9_Witness ==
  /\ row.message_type = "A"
  /\ row.order_id \in DOMAIN before
  /\ row.order_id \in DOMAIN orders
  /\ before[row.order_id].symbol # orders[row.order_id].symbol
  /\ before[row.order_id].side # orders[row.order_id].side
  /\ before[row.order_id].price # orders[row.order_id].price
  /\ before[row.order_id].qty # orders[row.order_id].qty
  /\ before[row.order_id].timestamp # orders[row.order_id].timestamp

\* C10: every row is handled without a fatal error (no exception leaves the
\* loop), whatever order id it names, so the loop goes on to the next row.
C10_NoFatalError == ~crashed /\ (msg_count < MaxEvents /\ output = <<>> => ENABLED Loop)

\* C10 witness: the last row of the run was a Replace whose price cell does
\* not parse, on a live order and onto an id that was not in the store
C10_Witness ==
  /\ row.message_type = "U"
  /\ row.price = "abc"
  /\ row.old_order_id \in DOMAIN before
  /\ row.order_id \notin DOMAIN before
  /\ msg_count = MaxEvents
  /\ ~crashed

\* ---------------------------------------------------------------- snapshots
\* What a snapshot must hold, stated on the store and not through the
\* operators of the type T branch.

\* the live orders of one symbol and side, and their distinct prices
LiveIds(store, sym, bid) ==
  { k \in DOMAIN store : store[k].symbol = sym /\ (bid <=> store[k].side = "B") }

LivePrices(store, sym, bid) == { store[k].price : k \in LiveIds(store, sym, bid) }

LiveSymbols(store) == { store[k].symbol : k \in DOMAIN store }

RECURSIVE Total(_, _)
Total(store, ids) ==
  IF ids = {} THEN 0
  ELSE LET k == CHOOSE k \in ids : TRUE IN store[k].qty + Total(store, ids \ {k})

\* the summed quantity of the live orders of one symbol, side and price
LiveQty(store, sym, bid, p) ==
  Total(store, { k \in LiveIds(store, sym, bid) : store[k].price = p })

\* the snapshot a ticker's list ends with
LastSnap(t) == snapshots_by_ticker[t][Len(snapshots_by_ticker[t])]

\* every snapshot recorded so far, with its ticker
AllSnaps ==
  UNION { { <<t, snapshots_by_ticker[t][i]>> : i \in 1..Len(snapshots_by_ticker[t]) } :
            t \in DOMAIN snapshots_by_ticker }

\* the levels of one side are those of the store: the best prices, each with
\* the summed live quantity
SideFrom(items, store, sym, bid) ==
  /\ Keys(items) \subseteq LivePrices(store, sym, bid)
  /\ Len(items) = Min(Levels, Cardinality(LivePrices(store, sym, bid)))
  /\ Cardinality(Keys(items)) = Len(items)
  /\ \A i \in DOMAIN items : items[i][2] = LiveQty(store, sym, bid, items[i][1])
  /\ \A p \in Keys(items) : \A q \in LivePrices(store, sym, bid) \ Keys(items) :
       IF bid THEN p > q ELSE p < q

\* C11 (invariant I3, snapshot consistency): after a Timestamp row, the
\* snapshot each live symbol's list ends with is the depth of the store the
\* preceding rows left (`before`, which the trigger does not change): no
\* later row is in it, no earlier row is missing, and all symbols' snapshots
\* of the trigger are taken on that one store.
C11_SnapshotConsistency ==
  row.message_type = "T" =>
    \A t \in LiveSymbols(before) :
      /\ t \in DOMAIN snapshots_by_ticker
      /\ SideFrom(LastSnap(t).bids, before, t, TRUE)
      /\ SideFrom(LastSnap(t).asks, before, t, FALSE)

\* C11 witness: an Add, an Execute of 40 of its 100, then the trigger: the
\* snapshot shows the 60 that were left
C11_Witness ==
  /\ row.message_type = "T"
  /\ msg_count = 3
  /\ \E k \in DOMAIN before : before[k].qty = 60 /\ before[k].side = "B"
  /\ \E t \in DOMAIN snapshots_by_ticker :
       /\ Len(snapshots_by_ticker[t]) = 1
       /\ \E p \in {1000, 1050} : LastSnap(t).bids = << <<p, 60>> >>

\* C12: in every snapshot, each level's quantity is the sum of the quantities
\* of all live orders of that symbol, side and price at trigger time, and
\* orders at one price are one level (Scenario B: bids of 100 and 50 at one
\* price are the single level of 150).
C12_LevelIsSum ==
  \A x \in AllSnaps :
    /\ \A i \in DOMAIN x[2].bids :
         /\ x[2].bids[i][2] = LiveQty(orders, x[1], TRUE, x[2].bids[i][1])
         /\ \A j \in DOMAIN x[2].bids : x[2].bids[j][1] = x[2].bids[i][1] => j = i
    /\ \A i \in DOMAIN x[2].asks :
         /\ x[2].asks[i][2] = LiveQty(orders, x[1], FALSE, x[2].asks[i][1])
         /\ \A j \in DOMAIN x[2].asks : x[2].asks[j][1] = x[2].asks[i][1] => j = i

\* C12 witness: two live ABC bids of 100 and 50 at 10.00 and a snapshot whose
\* level at 10.00 is 150
C12_Witness ==
  /\ Cardinality({ k \in LiveIds(orders, "ABC", TRUE) : orders[k].price = 1000 }) = 2
  /\ { orders[k].qty : k \in LiveIds(orders, "ABC", TRUE) } = {100, 50}
  /\ "ABC" \in DOMAIN snapshots_by_ticker
  /\ \E i \in DOMAIN LastSnap("ABC").bids : LastSnap("ABC").bids[i] = <<1000, 150>>

\* a sequence of prices strictly falls (down = TRUE) or strictly rises
Strictly(prices, down) ==
  \A i, j \in DOMAIN prices :
    i < j => IF down THEN prices[i] > prices[j] ELSE prices[i] < prices[j]

\* the prices of a dict's items, in the dict's order
PricesOf(items) == [i \in DOMAIN items |-> items[i][1]]

\* C13 (property P4): in every snapshot of every symbol the bid levels are
\* strictly descending by price and the ask levels strictly ascending, in the
\* snapshot and in the row written from it; no price is twice in one side.
C13_LevelsOrdered ==
  \A x \in AllSnaps :
    /\ Strictly(PricesOf(x[2].bids), TRUE)
    /\ Strictly(PricesOf(x[2].asks), FALSE)
    /\ Strictly(WrittenPrices(x[2].bids, TRUE), TRUE)
    /\ Strictly(WrittenPrices(x[2].asks, FALSE), FALSE)
    /\ Len(WrittenPrices(x[2].bids, TRUE)) = Len(x[2].bids)
    /\ Len(WrittenPrices(x[2].asks, FALSE)) = Len(x[2].asks)

\* C13 witness: a snapshot with three or more levels on each side
C13_Witness ==
  \E x \in AllSnaps : Len(x[2].bids) >= 3 /\ Len(x[2].asks) >= 3

\* C14 (property P5): each side of every snapshot holds min(5, number of
\* distinct live prices of that side) levels, and they are the best ones:
\* every bid price in it is above every live bid price left out, every ask
\* price in it below every live ask price left out.
C14_TopLevels ==
  \A x \in AllSnaps :
    /\ Len(x[2].bids) = Min(5, Cardinality(LivePrices(orders, x[1], TRUE)))
    /\ Len(x[2].asks) = Min(5, Cardinality(LivePrices(orders, x[1], FALSE)))
    /\ Keys(x[2].bids) \subseteq LivePrices(orders, x[1], TRUE)
    /\ Keys(x[2].asks) \subseteq LivePrices(orders, x[1], FALSE)
    /\ \A p \in Keys(x[2].bids) : \A q \in LivePrices(orders, x[1], TRUE) \ Keys(x[2].bids) : p > q
    /\ \A p \in Keys(x[2].asks) : \A q \in LivePrices(orders, x[1], FALSE) \ Keys(x[2].asks) : p < q

\* C14 witness: a store with 8 distinct ABC bid prices and 8 distinct ask
\* prices, and a snapshot of it with 5 levels a side
C14_Witness ==
  /\ Cardinality(LivePrices(orders, "ABC", TRUE)) = 8
  /\ Cardinality(LivePrices(orders, "ABC", FALSE)) >= 8
  /\ "ABC" \in DOMAIN snapshots_by_ticker
  /\ Len(LastSnap("ABC").bids) = 5
  /\ Len(LastSnap("ABC").asks) = 5

\* C15: a SnapshotTrigger leaves the order store unchanged: after a Timestamp
\* row every order, those beyond the top 5 levels included, has the symbol,
\* side, price, quantity and timestamp it had before, and no order is gone
\* or new.
C15_TriggerKeepsStore ==
  row.message_type = "T" =>
    /\ DOMAIN orders = DOMAIN before
    /\ \A k \in DOMAIN before :
         /\ orders[k].symbol = before[k].symbol
         /\ orders[k].side = before[k].side
         /\ orders[k].price = before[k].price
         /\ orders[k].qty = before[k].qty
         /\ orders[k].timestamp = before[k].timestamp

\* C15 witness: a trigger has run on a store with more than 5 bid prices, and
\* an order outside the snapshot's levels is still there
C15_Witness ==
  /\ row.message_type = "T"
  /\ "ABC" \in DOMAIN snapshots_by_ticker
  /\ Cardinality(LivePrices(before, "ABC", TRUE)) > Levels
  /\ \E k \in LiveIds(orders, "ABC", TRUE) : orders[k].price \notin Keys(LastSnap("ABC").bids)

\* C16: each SnapshotTrigger appends exactly one snapshot to the list of every
\* symbol with a live order and none to any other list; the snapshot carries
\* the trigger's timestamp, and a side with no live order is an empty list.
C16_OnePerLiveSymbol ==
  [][(row'.message_type = "T" /\ msg_count' = msg_count + 1) =>
       /\ DOMAIN snapshots_by_ticker' = DOMAIN snapshots_by_ticker \cup LiveSymbols(orders)
       /\ \A t \in DOMAIN snapshots_by_ticker' :
            LET old == IF t \in DOMAIN snapshots_by_ticker
                       THEN snapshots_by_ticker[t] ELSE <<>>
                new == snapshots_by_ticker'[t]
            IN IF t \in LiveSymbols(orders)
               THEN /\ Len(new) = Len(old) + 1
                    /\ SubSeq(new, 1, Len(old)) = old
                    /\ new[Len(new)].timestamp = row'.seconds
                    /\ (LiveIds(orders, t, TRUE) = {} => new[Len(new)].bids = <<>>)
                    /\ (LiveIds(orders, t, FALSE) = {} => new[Len(new)].asks = <<>>)
               ELSE new = old]_vars

\* C16 witness: a trigger stamped "9" has run on a store with live orders of
\* two symbols and each has its snapshot; the symbol without asks
\* has an empty ask list
C16_Witness ==
  /\ row.message_type = "T"
  /\ row.seconds = "9"
  /\ Cardinality(LiveSymbols(orders)) = 2
  /\ \A t \in LiveSymbols(orders) :
       t \in DOMAIN snapshots_by_ticker /\ LastSnap(t).timestamp = "9"
  /\ \E t \in LiveSymbols(orders) :
       LiveIds(orders, t, FALSE) = {} /\ LastSnap(t).asks = <<>> /\ LastSnap(t).bids # <<>>

\* C17: a snapshot is immutable once recorded: no later Add, Execute, Delete,
\* Replace or SnapshotTrigger changes the symbol, timestamp, prices or
\* quantities of a snapshot of an earlier trigger.
C17_SnapshotsImmutable ==
  [][\A t \in DOMAIN snapshots_by_ticker :
       /\ t \in DOMAIN snapshots_by_ticker'
       /\ Len(snapshots_by_ticker'[t]) >= Len(snapshots_by_ticker[t])
       /\ \A i \in 1..Len(snapshots_by_ticker[t]) :
            snapshots_by_ticker'[t][i] = snapshots_by_ticker[t][i]]_vars

\* C17 witness: the order a snapshot shows has since been deleted, and the
\* snapshot still shows it
C17_Witness ==
  /\ row.message_type = "D"
  /\ orders = EmptyDict
  /\ before # EmptyDict
  /\ \E t \in DOMAIN snapshots_by_ticker :
       /\ Len(snapshots_by_ticker[t]) = 1
       /\ LastSnap(t).bids # <<>>
       /\ LastSnap(t).bids[1][2] = 100

\* ---------------------------------------------------------------- decoding
\* `records[i]` is what parse_itch made of `frames[i]`; `decoded` is what
\* decode_message made of `msg`.

\* the frame's type byte has no branch in parse_itch / no entry in `decoders`
UnknownToParser(payload) == payload[1] \notin DOMAIN ParseBranches
UnknownToDecoder(m) == m[1] \notin DOMAIN Decoders

\* an event is Unrecognized{type_tag, raw_bytes, length}: it has the tag, the
\* bytes and the length of the frame and no field read out of the bytes
Unrecognized(rec, payload, length) ==
  /\ DOMAIN rec \subseteq {"message_type", "type_name", "message_length", "raw_length", "raw"}
  /\ "message_type" \in DOMAIN rec
  /\ rec.message_type \in {<<payload[1]>>, Hex0x(payload[1])}
  /\ ("type_name" \in DOMAIN rec => rec.type_name = "Unknown")
  /\ \/ "message_length" \in DOMAIN rec /\ rec.message_length = length
     \/ "raw_length" \in DOMAIN rec /\ rec.raw_length = length
  /\ "raw" \in DOMAIN rec
  /\ rec.raw = Hex(payload)

\* C18: every frame whose leading type tag is not in the decoder's layout
\* table decodes to an Unrecognized event that carries the tag, the raw bytes
\* and the length, raises no error, and does not stop the frames after it
\* from being decoded (Scenario E, tag 'Z'); for parse_itch and for
\* decode_message.
C18_UnknownTag ==
  /\ \A i \in DOMAIN records :
       UnknownToParser(frames[i].payload) =>
         /\ Unrecognized(records[i], frames[i].payload, frames[i].length)
         /\ (i = Len(records) => parser \in {"reading", "done"})
         /\ (i = Len(records) /\ Len(stream) >= 2 => parser = "reading")
  /\ (DOMAIN decoded # {} /\ msg # <<>> /\ UnknownToDecoder(msg)) =>
       Unrecognized(decoded, msg, Len(msg))

\* a field's bytes lie inside a frame of n bytes
Fits(f, n) == IF f.kind = "hex_rest" THEN f.lo < n ELSE f.hi <= n

\* C19: a frame shorter than the minimum length of its type decodes, without
\* error, to a partially-populated event that holds exactly the fields whose
\* byte ranges fit inside the frame; a frame in which not even the type tag
\* can be read decodes to Unrecognized; for parse_itch and for decode_message.
C19_ShortFrame ==
  /\ \A i \in DOMAIN records :
       LET payload == frames[i].payload
           t == payload[1]
       IN (t \in DOMAIN ParseBranches /\ Len(payload) < ParseBranches[t].min) =>
            /\ "error" \notin DOMAIN records[i]
            /\ \A j \in DOMAIN ParseBranches[t].fields :
                 LET f == ParseBranches[t].fields[j]
                 IN f.kind # "zero" => (f.name \in DOMAIN records[i] <=> Fits(f, Len(payload)))
  /\ (DOMAIN decoded # {} /\ msg # <<>> /\ ~UnknownToDecoder(msg)
        /\ Len(msg) < Decoders[msg[1]].message_length) =>
       /\ "error" \notin DOMAIN decoded
       /\ \A j \in DOMAIN Decoders[msg[1]].fields :
            LET f == Decoders[msg[1]].fields[j]
            IN f.name \in DOMAIN decoded <=> Fits(f, Len(msg))
  /\ (DOMAIN decoded # {} /\ msg = <<>>) =>
       /\ "error" \notin DOMAIN decoded
       /\ "type_name" \in DOMAIN decoded
       /\ decoded.type_name = "Unknown"

\* the type tags whose byte layout is not confirmed
Unconfirmed == {Ord["R"], Ord["f"], Ord["M"]}

\* an event that is not typed: it has no field beyond tag, bytes and length
Untyped(rec) ==
  /\ DOMAIN rec \subseteq {"message_type", "type_name", "message_length", "raw_length", "raw"}
  /\ ("type_name" \in DOMAIN rec => rec.type_name = "Unknown")

\* C20: frames with the tags whose byte layout is not confirmed ('R' 90-byte
\* Trade Report, 'f' 24-byte, 'M' 25-byte) decode as Unrecognized and never
\* as a typed event with invented fields; for parse_itch and for
\* decode_message.
C20_UnconfirmedUntyped ==
  /\ \A i \in DOMAIN records :
       frames[i].payload[1] \in Unconfirmed => Untyped(records[i])
  /\ (DOMAIN decoded # {} /\ msg # <<>> /\ msg[1] \in Unconfirmed) => Untyped(decoded)

RECURSIVE CompleteFrames(_)
\* how many complete frames (a 2-byte length and that many bytes after it) a
\* run of bytes starts with
CompleteFrames(b) ==
  IF Len(b) < 2 THEN 0
  ELSE LET n == b[1] * 256 + b[2]
       IN IF Len(b) - 2 < n THEN 0
          ELSE 1 + CompleteFrames(SubSeq(b, 3 + n, Len(b)))

\* C21: parse_itch emits exactly one record per complete frame of the input,
\* in frame order: each record is the record of the frame read at its place,
\* and when the loop has ended no complete frame is left unread behind a
\* malformed, too-short, unknown-tag or zero-length frame.
C21_OneRecordPerFrame ==
  /\ Len(records) = Len(frames)
  /\ \A i \in DOMAIN records :
       /\ records[i].message_type = <<frames[i].payload[1]>>
       /\ records[i].raw_length = frames[i].length
  /\ (parser # "reading" => CompleteFrames(stream) = 0)

\* C22: when the stream ends in the middle of a frame (the length prefix was
\* read in full, fewer payload bytes than declared remain), parse_itch ends
\* normally and makes no record of the partial frame: every record is of a
\* payload as long as its declared length.
C22_PartialFrameDropped ==
  \A i \in DOMAIN frames :
    /\ Len(frames[i].payload) = frames[i].length
    /\ (Len(frames[i].payload) < frames[i].length => parser \in {"reading", "done"})

\* C28: the two Add Order decoders agree: for every 30-byte frame with tag
\* 'A', parse_message_type_a and the 'A' branch of parse_itch give the same
\* timestamp, order_id, symbol, quantity, price and side, also for a price
\* with the top bit set, a symbol padded with NUL bytes or with leading
\* spaces, and a side byte other than 'B' and 'S'.
C28_AddDecodersAgree ==
  (/\ Len(records) >= 1
   /\ DOMAIN decoded # {}
   /\ Len(msg) = 30
   /\ msg[1] = Ord["A"]
   /\ frames[1].payload = msg) =>
    \A n \in {"timestamp", "order_id", "symbol", "quantity", "price", "side"} :
      records[1][n] = decoded[n]

\* whether a cell of an Add row is filled with something float() or int()
\* rejects
Unparsable(r) ==
  \/ (Truthy(r.price) /\ ~CanFloat(r.price))
  \/ (Truthy(r.quantity) /\ ~CanInt(r.quantity))
  \/ (Truthy(r.timestamp) /\ ~CanInt(r.timestamp))

\* C25: an Add that cannot be applied leaves the store exactly as it was: an
\* Add with a missing order id or an empty symbol inserts nothing, and an Add
\* whose price, quantity or timestamp cannot be parsed neither inserts an
\* entry nor alters or removes the entry its order id already has.
C25_FailedAddInert ==
  ( /\ row.message_type = "A"
    /\ (row.order_id = "" \/ Strip(row.symbol) = "" \/ Unparsable(row)) ) =>
      /\ orders = before
      /\ ~crashed

\* C25 witness: an Add with a cell that does not parse came for an id that
\* is live, and the entry is still what it was
C25_Witness ==
  /\ row.message_type = "A"
  /\ Unparsable(row)
  /\ row.order_id \in DOMAIN before
  /\ row.order_id \in DOMAIN orders
  /\ orders[row.order_id] = before[row.order_id]

\* C25 witness: an Add with no order id and an Add with a blank symbol were
\* replayed on a store that is not empty
C25_WitnessMissing ==
  /\ row.message_type = "A"
  /\ (row.order_id = "" \/ (row.symbol = "  " /\ row.order_id # ""))
  /\ DOMAIN before # {}

RECURSIVE SumItems(_)
\* the quantities of a snapshot side, added up
SumItems(items) ==
  IF items = <<>> THEN 0 ELSE items[1][2] + SumItems(Tail(items))

\* the live orders of a symbol whose side is 'B' (bid = TRUE), or is anything
\* else, at one of the given prices
SideIds(store, sym, bid, prices) ==
  { k \in DOMAIN store : /\ store[k].symbol = sym
                         /\ (bid <=> store[k].side = "B")
                         /\ store[k].price \in prices }

\* C26: at snapshot time every live order is counted on exactly one side: an
\* order of side 'B' adds to the bid levels only, an order of any other side
\* ('S' or a code that is not known) to the ask levels only. The levels a
\* side shows add up to the quantity of that side's orders at the prices
\* shown; a side of at most five prices shows them all, so that the bids and
\* the asks of a symbol with no level cut add up to its live quantity.
C26_OneSidePerOrder ==
  row.message_type = "T" =>
    \A t \in LiveSymbols(before) :
      /\ t \in DOMAIN snapshots_by_ticker
      /\ \A bid \in BOOLEAN :
           LET items == IF bid THEN LastSnap(t).bids ELSE LastSnap(t).asks
           IN /\ SumItems(items)
                   = Total(before, SideIds(before, t, bid, Keys(items)))
              /\ Len(items) = Cardinality(Keys(items))
              /\ (Cardinality(LivePrices(before, t, bid)) <= Levels =>
                    Keys(items) = LivePrices(before, t, bid))
      /\ ( /\ Cardinality(LivePrices(before, t, TRUE)) <= Levels
           /\ Cardinality(LivePrices(before, t, FALSE)) <= Levels ) =>
             SumItems(LastSnap(t).bids) + SumItems(LastSnap(t).asks)
               = Total(before, { k \in DOMAIN before : before[k].symbol = t })

\* C26 witness: a trigger on a book with an order whose side is neither 'B'
\* nor 'S', which is in the asks of its symbol's snapshot, beside a symbol
\* with bids and asks that are all shown
C26_Witness ==
  /\ row.message_type = "T"
  /\ \E k \in DOMAIN before :
       /\ before[k].side \notin {"B", "S"}
       /\ before[k].symbol \in DOMAIN snapshots_by_ticker
       /\ LastSnap(before[k].symbol).bids = <<>>
       /\ LastSnap(before[k].symbol).asks = <<<<before[k].price, before[k].qty>>>>
  /\ \E t \in DOMAIN snapshots_by_ticker :
       /\ Len(LastSnap(t).bids) \in 2..Levels
       /\ Len(LastSnap(t).asks) \in 1..Levels
       /\ Cardinality(LivePrices(before, t, TRUE)) = Len(LastSnap(t).bids)
       /\ SumItems(LastSnap(t).bids) > 100 * Len(LastSnap(t).bids)

\* ---------------------------------------------------------------- output rows

\* the rows of the output below the header, and those of one ticker
DataRows == Tail(output)

RowsOf(t) == SelectSeq(DataRows, LAMBDA r : r["ticker"] = t)

\* the columns of an output row: ticker, timestamp and five price/qty pairs a side
Columns ==
  {"ticker", "timestamp",
   "bid_1_price", "bid_1_qty", "bid_2_price", "bid_2_qty", "bid_3_price", "bid_3_qty",
   "bid_4_price", "bid_4_qty", "bid_5_price", "bid_5_qty",
   "ask_1_price", "ask_1_qty", "ask_2_price", "ask_2_qty", "ask_3_price", "ask_3_qty",
   "ask_4_price", "ask_4_qty", "ask_5_price", "ask_5_qty"}

PriceColumn(bid, i) ==
  IF bid THEN <<"bid_1_price", "bid_2_price", "bid_3_price", "bid_4_price", "bid_5_price">>[i]
  ELSE <<"ask_1_price", "ask_2_price", "ask_3_price", "ask_4_price", "ask_5_price">>[i]

QtyColumn(bid, i) ==
  IF bid THEN <<"bid_1_qty", "bid_2_qty", "bid_3_qty", "bid_4_qty", "bid_5_qty">>[i]
  ELSE <<"ask_1_qty", "ask_2_qty", "ask_3_qty", "ask_4_qty", "ask_5_qty">>[i]

\* the i-th best level of a snapshot side: the item with i - 1 better prices
\* (higher for bids, lower for asks) beside it
BestLevel(items, bid, i) ==
  CHOOSE x \in Range(items) :
    Cardinality({ y \in Range(items) : IF bid THEN y[1] > x[1] ELSE y[1] < x[1] }) = i - 1

\* pair i of a side of an output row is blank, or is filled
Blank(r, bid, i) == r[PriceColumn(bid, i)] = "" /\ r[QtyColumn(bid, i)] = ""

IsFilled(r, bid, i) == r[PriceColumn(bid, i)] # "" /\ r[QtyColumn(bid, i)] # ""

\* C23: each output row of a snapshot has exactly 5 bid price/quantity pairs
\* and 5 ask price/quantity pairs: pair i holds the i-th best level when the
\* snapshot has at least i levels on that side and is blank otherwise, and a
\* filled pair never follows a blank pair on the same side.
C23_FivePairsPerSide ==
  output # <<>> =>
    /\ \A j \in DOMAIN DataRows : DataRows[j]["ticker"] \in DOMAIN snapshots_by_ticker
    /\ \A t \in DOMAIN snapshots_by_ticker :
         /\ Len(RowsOf(t)) = Len(snapshots_by_ticker[t])
         /\ \A j \in DOMAIN RowsOf(t) :
              LET r == RowsOf(t)[j]
                  snap == snapshots_by_ticker[t][j]
              IN /\ DOMAIN r = Columns
                 /\ \A bid \in BOOLEAN :
                      LET items == IF bid THEN snap.bids ELSE snap.asks
                      IN /\ \A i \in 1..5 :
                              IF i <= Len(items)
                              THEN /\ r[PriceColumn(bid, i)]
                                        = Format2f(BestLevel(items, bid, i)[1])
                                   /\ r[QtyColumn(bid, i)]
                                        = ToString(BestLevel(items, bid, i)[2])
                                   /\ IsFilled(r, bid, i)
                              ELSE Blank(r, bid, i)
                         /\ \A i \in 1..4 : Blank(r, bid, i) => Blank(r, bid, i + 1)

\* C23 witness: the output has a row with all five bid pairs and the first
\* ask pair filled and the other four ask pairs blank, the bids falling from
\* 12.00 and the asks starting at 14.00, and a row with no bid at all
C23_Witness ==
  /\ output # <<>>
  /\ \E j \in DOMAIN DataRows :
       /\ \A i \in 1..5 : IsFilled(DataRows[j], TRUE, i)
       /\ DataRows[j]["bid_1_price"] = "12.00"
       /\ DataRows[j]["bid_2_price"] = "11.50"
       /\ DataRows[j]["bid_5_qty"] = "150"
       /\ DataRows[j]["ask_1_price"] = "14.00"
       /\ \A i \in 2..5 : Blank(DataRows[j], FALSE, i)
  /\ \E j \in DOMAIN DataRows :
       /\ \A i \in 1..5 : Blank(DataRows[j], TRUE, i)
       /\ IsFilled(DataRows[j], FALSE, 1)

\* the Timestamp rows that found a live order of ticker t, and the k-th of
\* them in the order of the feed
TriggersOf(t) == { e \in triggered : e[2] = t }

KthTrigger(t, k) ==
  CHOOSE e \in TriggersOf(t) :
    Cardinality({ d \in TriggersOf(t) : d[1] < e[1] }) = k - 1

\* C27: the rows written are ordered by ticker ascending and, within one
\* ticker, by the order in which the Timestamp rows came in the feed; every
\* snapshot recorded during the replay is written exactly once, so that
\* there are as many rows as pairs of a Timestamp row and a symbol with a
\* live order when it was read.
C27_RowsInTickerThenFeedOrder ==
  output # <<>> =>
    /\ Len(DataRows) = Cardinality(triggered)
    /\ \A i, j \in DOMAIN DataRows :
         i < j => StrRank[DataRows[i]["ticker"]] <= StrRank[DataRows[j]["ticker"]]
    /\ \A t \in { e[2] : e \in triggered } \cup DOMAIN snapshots_by_ticker :
         /\ t \in DOMAIN snapshots_by_ticker
         /\ Len(RowsOf(t)) = Len(snapshots_by_ticker[t])
         /\ Len(RowsOf(t)) = Cardinality(TriggersOf(t))
         /\ \A k \in DOMAIN RowsOf(t) : RowsOf(t)[k]["timestamp"] = KthTrigger(t, k)[3]

\* C27 witness: two Timestamp rows with different seconds cells on a book of
\* two symbols gave four rows: the two of ABC and then the two of XYZ, each
\* pair in the order of the feed
C27_Witness ==
  /\ Len(output) = 5
  /\ Cardinality(triggered) = 4
  /\ output[2]["ticker"] = "ABC" /\ output[3]["ticker"] = "ABC"
  /\ output[4]["ticker"] = "XYZ" /\ output[5]["ticker"] = "XYZ"
  /\ output[2]["timestamp"] # output[3]["timestamp"]
  /\ output[4]["timestamp"] = output[2]["timestamp"]
  /\ output[5]["timestamp"] = output[3]["timestamp"]
  /\ \E e \in triggered : e[3] = output[2]["timestamp"] /\ e[1] < msg_count

\* an Execute, Delete or Replace row that names an order id the store does
\* not hold
AbsentReference(r, store) ==
  \/ r.message_type \in {"e", "D"} /\ r.order_id \notin DOMAIN store
  \/ r.message_type = "U" /\ r.old_order_id \notin DOMAIN store

\* C24: every Execute, Delete or Replace that references an order id absent
\* from the store is recorded in a count of recoverable anomalies, which
\* grows by one per such event, while the store is left unchanged and no
\* error is raised. The replay keeps one count, msg_count: it is to grow by
\* one on these rows and on no other row.
C24_AbsentReferenceCounted ==
  [][ msg_count' = msg_count + 1 =>
        /\ AbsentReference(row', orders)
        /\ orders' = orders
        /\ ~crashed' ]_vars

\* the part of C24 the code does keep: a row that references an absent id
\* leaves the store and the snapshots alone and raises nothing
C24_AbsentReferenceInert ==
  [][ (msg_count' = msg_count + 1 /\ AbsentReference(row', orders)) =>
        /\ orders' = orders
        /\ snapshots_by_ticker' = snapshots_by_ticker
        /\ ~crashed' ]_vars

====
